---- MODULE Spec2Model ----
(***************************************************************************)
(* Model of the portfolio pages' client-side scripts:                      *)
(*   src/script.js                (main page: profile / experience images) *)
(*   src/projects/BTZ/script.js   (project page, one implementation)       *)
(*   src/projects/AIAA/script.js  (project page, two implementations       *)
(*                                 concatenated in one file, both active)  *)
(* The browser is the environment: it delivers intersection entries,       *)
(* completes fetches with success or failure, fires timers and dispatches  *)
(* user input, one callback at a time.                                     *)
(***************************************************************************)
EXTENDS Integers, Sequences, FiniteSets, Bags, TLC

\* ------------------------------------------------------------------ bounds
NumImages   == 2   \* placeholders on the main page
NumMedia    == 1   \* badge / video placeholders on a project page
NumGallery  == 3   \* gallery (lazy, project-image) images on a project page
MaxPreload  == 1   \* hover preloads in flight at once
MaxFetches  == 2   \* probe fetches of one badge / video placeholder
MaxTimers   == 3   \* pending timers on a project page with a gallery
MaxRescan   == 1   \* calls of the global re-scan operation by other scripts
MaxLoads    == 1   \* probe fetches issued on a project page with a gallery
MaxLoaderLoads == 3 \* probe fetches issued on a project page nobody clicks on
NumSiblings == 3   \* placeholders on the main page when nobody hovers
NumEntries  == 4   \* gallery images on a project page whose images stay unloaded

\* ------------------------------------------------------- program constants
RetryBudget    == 3      \* retries argument passed by both main-page observers
RetryDelay     == 1000   \* setTimeout(... loadImageWithRetry ..., 1000)
LoadedDelay    == 50     \* experience image: add 'loaded'
HideDelay      == 5000   \* experience image: hide loader, remove shimmer
IconDelay      == 100    \* experience image: rotate the icon overlay
IconFadeDelay  == 300    \* experience image: fade the icon overlay
ShowDelay      == 10     \* openModal: add 'show'
CloseDelay     == 300    \* closeModal: display none
RebuildDelay   == 100    \* setTimeout(initializeModal, 100)
SwipeThreshold == 50     \* touchEndX < touchStartX - 50, touchEndX > touchStartX + 50

Placeholders == 1..NumGallery + NumImages + NumMedia

VARIABLES
    page,        \* "main", "BTZ" or "AIAA"
    registered,  \* the placeholders present in the page's markup
    variant,     \* placeholder -> "profile","experience","lazy","badge","video"
    dataSrc,     \* placeholder -> whether the element has a data-src attribute
    observing,   \* placeholder -> the observers (by implementation) watching it
    inflight,    \* bag of fetches in flight (probe objects and hover preloads)
    timers,      \* pending setTimeout callbacks, in scheduling order
    imgSrc,      \* placeholder -> src of the visible element (0: none,
                 \*   p: the deferred URL of p, -1: fallback-avatar.svg)
    flags,       \* placeholder -> classes / styles set on the element, its
                 \*   loader, its container and its icon overlay
    playButtons, \* video -> play overlays (and click handlers) attached
    player,      \* video -> its paused attribute and, per play overlay in the
                 \*   order appended, whether the overlay is visible
    errorMsgs,   \* video -> inline error messages appended
    triggered,   \* history: placeholder got an intersecting entry
    watcherLoads, \* history: loads of the placeholder started by an observer
    attempts,    \* history: probe fetches issued for the placeholder
    failures,    \* history: probe fetches of the placeholder that failed
    hist,        \* history: placeholder -> sequence of observed states
    loadsLeft,   \* loads of gallery images the observers may still start
                 \*   (bound of the model)
    inDocument,  \* the gallery images still attached to the document
    clickListeners, \* gallery image -> click listeners added, in order
    modal,       \* the lightbox: sessions' fields and the overlay's DOM state
                 \*   (isOpen, reopened: history of open / close calls)
    rescans,     \* history: calls of window.initializeModal by other scripts
    touchStartX, \* session -> screenX of the last touchstart on the overlay
    rebuildLog,  \* history: session -> successful loads that asked for its
                 \*   re-scan, and re-scans its timers have run
    lastEvent    \* history: the last event dispatched on a gallery page

loaderVars == <<registered, variant, dataSrc, observing, inflight, imgSrc, flags,
                playButtons, player, errorMsgs, triggered, watcherLoads, attempts, failures,
                hist, loadsLeft>>
galleryVars == <<inDocument, clickListeners, modal, rescans, touchStartX, rebuildLog,
                 lastEvent>>
vars == <<page, timers, loaderVars, galleryVars>>

\* ----------------------------------------------------------------- helpers
Url(p) == p               \* img.dataset.src of placeholder p
NoSrc == 0                \* no src on the visible element yet
FallbackSrc == 0 - 1      \* 'fallback-avatar.svg'

OneOf(f) == SetToBag({f})

Fetch(p, retries, owner, kind) ==
    [p |-> p, retries |-> retries, owner |-> owner, kind |-> kind]

Timer(kind, p, retries, s) == [kind |-> kind, p |-> p, retries |-> retries, s |-> s]

\* Fetches of p's deferred URL in flight (probes of every implementation and
\* hover preloads).
InFlight(p) ==
    LET fs == {f \in BagToSet(inflight) : f.p = p}
        RECURSIVE Sum(_)
        Sum(S) == IF S = {} THEN 0
                  ELSE LET f == CHOOSE x \in S : TRUE
                       IN CopiesIn(f, inflight) + Sum(S \ {f})
    IN Sum(fs)

ProbesInFlight(p) ==
    LET fs == {f \in BagToSet(inflight) : f.p = p /\ f.kind = "probe"}
        RECURSIVE Sum(_)
        Sum(S) == IF S = {} THEN 0
                  ELSE LET f == CHOOSE x \in S : TRUE
                       IN CopiesIn(f, inflight) + Sum(S \ {f})
    IN Sum(fs)

PreloadsInFlight ==
    LET fs == {f \in BagToSet(inflight) : f.kind = "preload"}
        RECURSIVE Sum(_)
        Sum(S) == IF S = {} THEN 0
                  ELSE LET f == CHOOSE x \in S : TRUE
                       IN CopiesIn(f, inflight) + Sum(S \ {f})
    IN Sum(fs)

Delay(kind) ==
    CASE kind = "retry"    -> RetryDelay
      [] kind = "loaded"   -> LoadedDelay
      [] kind = "hide"     -> HideDelay
      [] kind = "icon"     -> IconDelay
      [] kind = "iconfade" -> IconFadeDelay
      [] kind = "show"     -> ShowDelay
      [] kind = "close"    -> CloseDelay
      [] kind = "rebuild"  -> RebuildDelay

\* The browser runs timers in order of expiry, and timers that expire together
\* in the order they were scheduled. The queue is kept in firing order: only
\* its head fires, and a timer scheduled now goes behind every queued timer
\* whose delay is not longer (that one was scheduled earlier and expires no
\* later); where it goes among queued timers with a longer delay depends on
\* how long ago those were scheduled, which the model leaves open.
InsertAt(q, k, t) == SubSeq(q, 1, k - 1) \o <<t>> \o SubSeq(q, k, Len(q))

FirstSlot(q, t) ==
    LET le == {j \in 1..Len(q) : Delay(q[j].kind) <= Delay(t.kind)}
    IN IF le = {} THEN 1 ELSE 1 + CHOOSE j \in le : \A k \in le : k <= j

\* The queues that can result from scheduling, in one callback, the timers of
\* batch (given by ascending delay), each behind slot `from`.
RECURSIVE Schedule(_, _, _)
Schedule(q, batch, from) ==
    IF batch = <<>> THEN {q}
    ELSE LET t == Head(batch)
             lo == IF FirstSlot(q, t) > from THEN FirstSlot(q, t) ELSE from
         IN UNION {Schedule(InsertAt(q, k, t), Tail(batch), k + 1) :
                       k \in lo..(Len(q) + 1)}

IssueProbe(p, retries, owner) ==
    /\ inflight' = inflight (+) OneOf(Fetch(p, retries, owner, "probe"))
    /\ attempts' = [attempts EXCEPT ![p] = @ + 1]
    /\ hist' = [hist EXCEPT ![p] = Append(@, "Loading")]

\* ================================================================ main page
\* src/script.js

\* Variant of the check below that starts the load on every entry.
ShouldLoadAlways(isIntersecting) == TRUE

\* if (entry.isIntersecting) in both main-page observers
ShouldLoad(isIntersecting) == isIntersecting

\* Variant of the check below that allows one retry too many.
CanRetryOffByOne(retries) == retries >= 0

\* Variant of loadImageWithRetry that loads the first placeholder of the page
\* instead of the one it was given.
loadImageWithRetryFirst(p, retries) == IssueProbe(1, retries, "A")

\* if (retries > 0) in tempImg.onerror
CanRetry(retries) == retries > 0

\* loadImageWithRetry: a new probe whose src is img.dataset.src
loadImageWithRetry(p, retries) == IssueProbe(p, retries, "A")

profileImageObserver(p, isIntersecting) ==
    /\ page = "main" /\ p \in registered /\ variant[p] = "profile"
    /\ "A" \in observing[p]
    /\ IF ShouldLoad(isIntersecting)
       THEN /\ loadImageWithRetry(p, RetryBudget)
            /\ observing' = [observing EXCEPT ![p] = @ \ {"A"}]
            /\ triggered' = [triggered EXCEPT ![p] = triggered[p] \/ isIntersecting]
            /\ watcherLoads' = [watcherLoads EXCEPT ![p] = @ + 1]
            /\ UNCHANGED flags
       ELSE UNCHANGED <<inflight, attempts, hist, observing, triggered, watcherLoads, flags>>
    /\ UNCHANGED <<page, registered, loadsLeft, variant, dataSrc, timers, imgSrc,
                   playButtons, player, errorMsgs, failures, galleryVars>>

experienceImageObserver(p, isIntersecting) ==
    /\ page = "main" /\ p \in registered /\ variant[p] = "experience"
    /\ "A" \in observing[p]
    /\ IF ShouldLoad(isIntersecting)
       THEN /\ loadImageWithRetry(p, RetryBudget)
            /\ observing' = [observing EXCEPT ![p] = @ \ {"A"}]
            /\ triggered' = [triggered EXCEPT ![p] = triggered[p] \/ isIntersecting]
            /\ watcherLoads' = [watcherLoads EXCEPT ![p] = @ + 1]
            /\ flags' = [flags EXCEPT ![p] = @ \cup {"animated"}]
       ELSE UNCHANGED <<inflight, attempts, hist, observing, triggered, watcherLoads, flags>>
    /\ UNCHANGED <<page, registered, loadsLeft, variant, dataSrc, timers, imgSrc,
                   playButtons, player, errorMsgs, failures, galleryVars>>

\* tempImg.onload of loadImageWithRetry
tempImgOnload(f) ==
    /\ page = "main" /\ f.kind = "probe" /\ BagIn(f, inflight)
    /\ inflight' = inflight (-) OneOf(f)
    /\ imgSrc' = [imgSrc EXCEPT ![f.p] = Url(f.p)]
    /\ hist' = [hist EXCEPT ![f.p] = Append(@, "Loaded")]
    /\ IF variant[f.p] = "experience"
       THEN /\ flags' = [flags EXCEPT ![f.p] = @ \cup {"stop-pulse", "show-shimmer"}]
            /\ timers' \in Schedule(timers, <<Timer("loaded", f.p, 0, ""),
                                              Timer("icon", f.p, 0, ""),
                                              Timer("hide", f.p, 0, "")>>, 1)
       ELSE /\ flags' = [flags EXCEPT ![f.p] = @ \cup {"loaded", "loader-hidden"}]
            /\ UNCHANGED timers
    /\ UNCHANGED <<page, registered, loadsLeft, variant, dataSrc, observing, playButtons,
                   player, errorMsgs, triggered, watcherLoads, attempts, failures,
                   galleryVars>>

\* Variant of the action below whose retries lose isExperienceImage: the
\* exhausted load of any image ends as a profile image's does.
tempImgOnerrorAsProfile(f) ==
    /\ page = "main" /\ f.kind = "probe" /\ BagIn(f, inflight)
    /\ inflight' = inflight (-) OneOf(f)
    /\ failures' = [failures EXCEPT ![f.p] = @ + 1]
    /\ IF CanRetry(f.retries)
       THEN /\ timers' \in Schedule(timers, <<Timer("retry", f.p, f.retries - 1, "")>>, 1)
            /\ UNCHANGED <<imgSrc, flags, hist>>
       ELSE /\ hist' = [hist EXCEPT ![f.p] = Append(@, "Failed")]
            /\ imgSrc' = [imgSrc EXCEPT ![f.p] = FallbackSrc]
            /\ flags' = [flags EXCEPT ![f.p] = @ \cup {"loaded", "loader-hidden"}]
            /\ UNCHANGED timers
    /\ UNCHANGED <<page, registered, loadsLeft, variant, dataSrc, observing, playButtons,
                   player, errorMsgs, triggered, watcherLoads, attempts, galleryVars>>

\* tempImg.onerror of loadImageWithRetry
tempImgOnerror(f) ==
    /\ page = "main" /\ f.kind = "probe" /\ BagIn(f, inflight)
    /\ inflight' = inflight (-) OneOf(f)
    /\ failures' = [failures EXCEPT ![f.p] = @ + 1]
    /\ IF CanRetry(f.retries)
       THEN /\ timers' \in Schedule(timers, <<Timer("retry", f.p, f.retries - 1, "")>>, 1)
            /\ UNCHANGED <<imgSrc, flags, hist>>
       ELSE /\ hist' = [hist EXCEPT ![f.p] = Append(@, "Failed")]
            /\ IF variant[f.p] = "experience"
               THEN /\ flags' = [flags EXCEPT ![f.p] =
                          (@ \ {"icon-faded"}) \cup
                          {"stop-pulse", "error-state", "icon-warning", "loader-hidden"}]
                    /\ UNCHANGED imgSrc
               ELSE /\ imgSrc' = [imgSrc EXCEPT ![f.p] = FallbackSrc]
                    /\ flags' = [flags EXCEPT ![f.p] = @ \cup {"loaded", "loader-hidden"}]
            /\ UNCHANGED timers
    /\ UNCHANGED <<page, registered, loadsLeft, variant, dataSrc, observing, playButtons,
                   player, errorMsgs, triggered, watcherLoads, attempts, galleryVars>>

\* Variant of the action below whose retry callback starts no load.
MainTimerRetryLost ==
    /\ page = "main" /\ timers # <<>>
    /\ LET t == Head(timers) rest == Tail(timers) IN
       CASE t.kind = "retry" ->
              /\ timers' = rest
              /\ UNCHANGED <<flags, inflight, attempts, hist>>
         [] t.kind = "loaded" ->
              /\ flags' = [flags EXCEPT ![t.p] = @ \cup {"loaded"}]
              /\ timers' = rest
              /\ UNCHANGED <<inflight, attempts, hist>>
         [] t.kind = "hide" ->
              /\ flags' = [flags EXCEPT ![t.p] = (@ \cup {"loader-hidden"}) \ {"show-shimmer"}]
              /\ timers' = rest
              /\ UNCHANGED <<inflight, attempts, hist>>
         [] t.kind = "icon" ->
              /\ flags' = [flags EXCEPT ![t.p] = @ \cup {"icon-rotated"}]
              /\ timers' \in Schedule(rest, <<Timer("iconfade", t.p, 0, "")>>, 1)
              /\ UNCHANGED <<inflight, attempts, hist>>
         [] t.kind = "iconfade" ->
              /\ flags' = [flags EXCEPT ![t.p] = @ \cup {"icon-faded"}]
              /\ timers' = rest
              /\ UNCHANGED <<inflight, attempts, hist>>
    /\ UNCHANGED <<page, registered, loadsLeft, variant, dataSrc, observing, imgSrc,
                   playButtons, player, errorMsgs, triggered, watcherLoads, failures,
                   galleryVars>>

\* The timers of the main page: the retry and the success transition's chain.
MainTimer ==
    /\ page = "main" /\ timers # <<>>
    /\ LET t == Head(timers) rest == Tail(timers) IN
       CASE t.kind = "retry" ->
              /\ loadImageWithRetry(t.p, t.retries)
              /\ timers' = rest
              /\ UNCHANGED flags
         [] t.kind = "loaded" ->
              /\ flags' = [flags EXCEPT ![t.p] = @ \cup {"loaded"}]
              /\ timers' = rest
              /\ UNCHANGED <<inflight, attempts, hist>>
         [] t.kind = "hide" ->
              /\ flags' = [flags EXCEPT ![t.p] = (@ \cup {"loader-hidden"}) \ {"show-shimmer"}]
              /\ timers' = rest
              /\ UNCHANGED <<inflight, attempts, hist>>
         [] t.kind = "icon" ->
              /\ flags' = [flags EXCEPT ![t.p] = @ \cup {"icon-rotated"}]
              /\ timers' \in Schedule(rest, <<Timer("iconfade", t.p, 0, "")>>, 1)
              /\ UNCHANGED <<inflight, attempts, hist>>
         [] t.kind = "iconfade" ->
              /\ flags' = [flags EXCEPT ![t.p] = @ \cup {"icon-faded"}]
              /\ timers' = rest
              /\ UNCHANGED <<inflight, attempts, hist>>
    /\ UNCHANGED <<page, registered, loadsLeft, variant, dataSrc, observing, imgSrc,
                   playButtons, player, errorMsgs, triggered, watcherLoads, failures,
                   galleryVars>>

\* The experience item after item p in the document, 0 when there is none
\* (this.nextElementSibling).
nextElementSibling(p) ==
    IF p + 1 \in registered /\ variant[p + 1] = "experience" THEN p + 1 ELSE 0

\* mouseenter on the experience item of p: preload the next item's image
mouseenter(p) ==
    /\ page = "main" /\ p \in registered /\ variant[p] = "experience"
    /\ LET n == nextElementSibling(p) IN
       /\ n # 0
       /\ "loaded" \notin flags[n] /\ dataSrc[n]
       /\ PreloadsInFlight < MaxPreload
       /\ inflight' = inflight (+) OneOf(Fetch(n, 0, "A", "preload"))
    /\ UNCHANGED <<page, registered, loadsLeft, variant, dataSrc, observing, timers, imgSrc,
                   flags, playButtons, player, errorMsgs, triggered, watcherLoads, attempts,
                   failures, hist, galleryVars>>

\* A hover preload completes; preloadImg has no handlers.
preloadDone(f) ==
    /\ page = "main" /\ f.kind = "preload" /\ BagIn(f, inflight)
    /\ inflight' = inflight (-) OneOf(f)
    /\ UNCHANGED <<page, registered, loadsLeft, variant, dataSrc, observing, timers, imgSrc,
                   flags, playButtons, player, errorMsgs, triggered, watcherLoads, attempts,
                   failures, hist, galleryVars>>

\* ------------------------------------------------------------ initial state
NoModal ==
    [currentImageIndex |-> [s \in {} |-> 0],
     galleryImages |-> [s \in {} |-> <<>>],
     isOpen |-> [s \in {} |-> FALSE], reopened |-> FALSE,
     display |-> "none", show |-> FALSE, bodyModalOpen |-> FALSE,
     src |-> NoSrc, alt |-> "", caption |-> "",
     prevDisplay |-> "", nextDisplay |-> ""]

\* A video element nothing was loaded into: paused, no play overlay.
NoPlayer == [paused |-> TRUE, overlays |-> <<>>]

\* No load has asked for a re-scan, no re-scan timer has run.
NoRebuilds == [loaded |-> 0, rebuilt |-> 0]

InitCommon(reg) ==
    /\ registered = reg
    /\ dataSrc \in [Placeholders -> BOOLEAN]
    /\ \A p \in Placeholders :
          IF p \in reg THEN (variant[p] # "video" => dataSrc[p]) ELSE ~dataSrc[p]
    /\ inflight = EmptyBag
    /\ imgSrc = [p \in Placeholders |-> NoSrc]
    /\ playButtons = [p \in Placeholders |-> 0]
    /\ player = [p \in Placeholders |-> NoPlayer]
    /\ errorMsgs = [p \in Placeholders |-> 0]
    /\ triggered = [p \in Placeholders |-> FALSE]
    /\ watcherLoads = [p \in Placeholders |-> 0]
    /\ attempts = [p \in Placeholders |-> 0]
    /\ failures = [p \in Placeholders |-> 0]
    /\ hist = [p \in Placeholders |-> IF p \in reg THEN <<"Pending">> ELSE <<>>]

MainImages == 1..NumImages

InitMain ==
    /\ page = "main"
    /\ variant \in [Placeholders -> {"profile", "experience", "none"}]
    /\ \A p \in Placeholders : (variant[p] = "none") = (p \notin MainImages)
    /\ InitCommon(MainImages)
    /\ observing = [p \in Placeholders |-> IF p \in MainImages THEN {"A"} ELSE {}]
    /\ flags = [p \in Placeholders |-> {}]
    /\ timers = <<>>
    /\ inDocument = {}
    /\ clickListeners = [p \in Placeholders |-> <<>>]
    /\ modal = NoModal
    /\ rescans = 0
    /\ touchStartX = [s \in {} |-> 0]
    /\ rebuildLog = [s \in {} |-> NoRebuilds]
    /\ loadsLeft = 0
    /\ lastEvent = <<"init">>

NextMain ==
    \/ \E p \in Placeholders, b \in BOOLEAN : profileImageObserver(p, b)
    \/ \E p \in Placeholders, b \in BOOLEAN : experienceImageObserver(p, b)
    \/ \E f \in BagToSet(inflight) : tempImgOnload(f)
    \/ \E f \in BagToSet(inflight) : tempImgOnerror(f)
    \/ MainTimer
    \/ \E p \in Placeholders : mouseenter(p)
    \/ \E f \in BagToSet(inflight) : preloadDone(f)

SpecMain == InitMain /\ [][NextMain]_vars

\* ---- the main page when every fetch loadImageWithRetry issued completes
\* (tempImg fires load or error) and every setTimeout callback runs.
ProbeCompletes ==
    \E f \in BagToSet(inflight) : tempImgOnload(f) \/ tempImgOnerror(f)

SpecMainFair ==
    InitMain /\ [][NextMain]_vars /\ WF_vars(ProbeCompletes) /\ WF_vars(MainTimer)

\* ---- the main page with NumSiblings placeholders and no pointer: the
\* observers, the fetch completions and the timers only.
InitSiblings ==
    /\ page = "main"
    /\ variant \in [Placeholders -> {"profile", "experience", "none"}]
    /\ \A p \in Placeholders : (variant[p] = "none") = (p \notin 1..NumSiblings)
    /\ InitCommon(1..NumSiblings)
    /\ observing = [p \in Placeholders |-> IF p \in registered THEN {"A"} ELSE {}]
    /\ flags = [p \in Placeholders |-> {}]
    /\ timers = <<>>
    /\ inDocument = {}
    /\ clickListeners = [p \in Placeholders |-> <<>>]
    /\ modal = NoModal
    /\ rescans = 0
    /\ touchStartX = [s \in {} |-> 0]
    /\ rebuildLog = [s \in {} |-> NoRebuilds]
    /\ loadsLeft = 0
    /\ lastEvent = <<"init">>

NextSiblings ==
    \/ \E p \in Placeholders, b \in BOOLEAN : profileImageObserver(p, b)
    \/ \E p \in Placeholders, b \in BOOLEAN : experienceImageObserver(p, b)
    \/ \E f \in BagToSet(inflight) : tempImgOnload(f)
    \/ \E f \in BagToSet(inflight) : tempImgOnerror(f)
    \/ MainTimer

SpecSiblings == InitSiblings /\ [][NextSiblings]_vars

\* ============================================================ project pages
\* src/projects/BTZ/script.js and src/projects/AIAA/script.js

ProjectPage == page \in {"BTZ", "AIAA"}

\* Bound of the model: the observers start a load of a gallery image while
\* loadsLeft allows.
MayLoad(p) == variant[p] = "lazy" => loadsLeft > 0

\* The observers a placeholder of variant v is registered with at startup.
\* On AIAA a lazy image is observed by LazyImageLoader (A) and by imageObserver
\* (B), and a badge by initializeBadgeLoader (A) and by imageObserver (B).
Observers(pg, v) ==
    IF pg = "AIAA" /\ v \in {"lazy", "badge"} THEN {"A", "B"} ELSE {"A"}

\* ---- badges: initializeBadgeLogos (BTZ), initializeBadgeLoader (AIAA)
badgeObserver(p, isIntersecting) ==
    /\ ProjectPage /\ p \in registered /\ variant[p] = "badge"
    /\ "A" \in observing[p]
    /\ IF isIntersecting
       THEN /\ attempts[p] < MaxFetches
            /\ IssueProbe(p, 0, "A")
            /\ triggered' = [triggered EXCEPT ![p] = TRUE]
            /\ watcherLoads' = [watcherLoads EXCEPT ![p] = @ + 1]
       ELSE UNCHANGED <<inflight, attempts, hist, triggered, watcherLoads>>
    /\ UNCHANGED <<page, registered, loadsLeft, variant, dataSrc, observing, timers, imgSrc,
                   flags, playButtons, player, errorMsgs, failures, galleryVars>>

\* tempImg.onload of the badge observer's callback
badgeOnload(f) ==
    /\ ProjectPage /\ BagIn(f, inflight) /\ variant[f.p] = "badge" /\ f.owner = "A"
    /\ inflight' = inflight (-) OneOf(f)
    /\ imgSrc' = [imgSrc EXCEPT ![f.p] = Url(f.p)]
    /\ flags' = [flags EXCEPT ![f.p] = @ \cup {"loaded", "loader-hidden"}]
    /\ observing' = [observing EXCEPT ![f.p] = @ \ {"A"}]
    /\ hist' = [hist EXCEPT ![f.p] = Append(@, "Loaded")]
    /\ UNCHANGED <<page, registered, loadsLeft, variant, dataSrc, timers, playButtons,
                   player, errorMsgs, triggered, watcherLoads, attempts, failures,
                   galleryVars>>

\* tempImg.onerror of the badge observer's callback
badgeOnerror(f) ==
    /\ ProjectPage /\ BagIn(f, inflight) /\ variant[f.p] = "badge" /\ f.owner = "A"
    /\ inflight' = inflight (-) OneOf(f)
    /\ flags' = [flags EXCEPT ![f.p] = @ \cup {"icon-fallback", "loader-hidden"}]
    /\ observing' = [observing EXCEPT ![f.p] = @ \ {"A"}]
    /\ failures' = [failures EXCEPT ![f.p] = @ + 1]
    /\ hist' = [hist EXCEPT ![f.p] = Append(@, "Failed")]
    /\ UNCHANGED <<page, registered, loadsLeft, variant, dataSrc, timers, imgSrc,
                   playButtons, player, errorMsgs, triggered, watcherLoads, attempts,
                   galleryVars>>

\* ---- AIAA, second implementation: imageObserver on 'img.lazy, .lazy-load-badge'
imageObserver(p, isIntersecting) ==
    /\ page = "AIAA" /\ p \in registered /\ variant[p] \in {"lazy", "badge"}
    /\ "B" \in observing[p]
    /\ IF isIntersecting
       THEN /\ MayLoad(p)
            /\ IssueProbe(p, 0, "B")      \* loadBadgeLogo(p) or loadImage(p)
            /\ observing' = [observing EXCEPT ![p] = @ \ {"B"}]
            /\ triggered' = [triggered EXCEPT ![p] = TRUE]
            /\ watcherLoads' = [watcherLoads EXCEPT ![p] = @ + 1]
            /\ loadsLeft' = IF variant[p] = "lazy" THEN loadsLeft - 1 ELSE loadsLeft
       ELSE UNCHANGED <<inflight, attempts, hist, observing, triggered, watcherLoads,
                         loadsLeft>>
    /\ lastEvent' = IF variant[p] = "lazy" THEN <<"env">> ELSE lastEvent
    /\ UNCHANGED <<touchStartX, rebuildLog>>
    /\ UNCHANGED <<page, registered, variant, dataSrc, timers, imgSrc, flags, playButtons,
                   player, errorMsgs, failures, inDocument, clickListeners, modal, rescans>>

\* tempImg.onload of loadBadgeLogo
loadBadgeLogoOnload(f) ==
    /\ page = "AIAA" /\ BagIn(f, inflight) /\ variant[f.p] = "badge" /\ f.owner = "B"
    /\ inflight' = inflight (-) OneOf(f)
    /\ imgSrc' = [imgSrc EXCEPT ![f.p] = Url(f.p)]
    /\ flags' = [flags EXCEPT ![f.p] = @ \cup {"loaded", "loader-hidden"}]
    /\ hist' = [hist EXCEPT ![f.p] = Append(@, "Loaded")]
    /\ UNCHANGED <<page, registered, loadsLeft, variant, dataSrc, observing, timers,
                   playButtons, player, errorMsgs, triggered, watcherLoads, attempts,
                   failures, galleryVars>>

\* tempImg.onerror of loadBadgeLogo
loadBadgeLogoOnerror(f) ==
    /\ page = "AIAA" /\ BagIn(f, inflight) /\ variant[f.p] = "badge" /\ f.owner = "B"
    /\ inflight' = inflight (-) OneOf(f)
    /\ flags' = [flags EXCEPT ![f.p] = @ \cup {"icon-fallback", "loader-hidden"}]
    /\ failures' = [failures EXCEPT ![f.p] = @ + 1]
    /\ hist' = [hist EXCEPT ![f.p] = Append(@, "Failed")]
    /\ UNCHANGED <<page, registered, loadsLeft, variant, dataSrc, observing, timers, imgSrc,
                   playButtons, player, errorMsgs, triggered, watcherLoads, attempts,
                   galleryVars>>

\* ---- videos: LazyVideoLoader (the same class on both project pages)
\* loadVideo: abandoned when the element has no data-src, else the spinner is
\* shown and a probe <video> is created and loaded.
\* Variant of the operator below without the check of data-src.
loadVideoUnchecked(p) ==
    /\ attempts[p] < MaxFetches
    /\ flags' = [flags EXCEPT ![p] = @ \ {"loader-hidden"}]
    /\ IssueProbe(p, 0, "A")

loadVideo(p) ==
    IF ~dataSrc[p]
    THEN UNCHANGED <<inflight, attempts, hist, flags>>
    ELSE /\ attempts[p] < MaxFetches
         /\ flags' = [flags EXCEPT ![p] = @ \ {"loader-hidden"}]
         /\ IssueProbe(p, 0, "A")

\* the observer callback of LazyVideoLoader (init / createObserver)
videoObserver(p, isIntersecting) ==
    /\ ProjectPage /\ p \in registered /\ variant[p] = "video"
    /\ "A" \in observing[p]
    /\ IF isIntersecting
       THEN /\ loadVideo(p)
            /\ triggered' = [triggered EXCEPT ![p] = TRUE]
            /\ watcherLoads' = [watcherLoads EXCEPT ![p] = IF dataSrc[p] THEN @ + 1 ELSE @]
       ELSE UNCHANGED <<inflight, attempts, hist, flags, triggered, watcherLoads>>
    /\ UNCHANGED <<page, registered, loadsLeft, variant, dataSrc, observing, timers, imgSrc,
                   playButtons, player, errorMsgs, failures, galleryVars>>

\* window.lazyVideoLoader.loadVideoById, callable by other scripts
loadVideoById(p) ==
    /\ ProjectPage /\ p \in registered /\ variant[p] = "video"
    /\ loadVideo(p)
    /\ UNCHANGED <<page, registered, loadsLeft, variant, dataSrc, observing, timers, imgSrc,
                   playButtons, player, errorMsgs, triggered, watcherLoads, failures,
                   galleryVars>>

SetOverlays(pl, visible) == [pl EXCEPT !.overlays = [k \in DOMAIN @ |-> visible]]

\* videoElement's 'play' listeners of showPlayButton: opacity 0 on every overlay
firePlay(pl) == SetOverlays([pl EXCEPT !.paused = FALSE], FALSE)

\* Variant of the operator below whose listeners leave the overlays as they are.
firePauseSilent(pl) == [pl EXCEPT !.paused = TRUE]

\* videoElement's 'pause' and 'ended' listeners of showPlayButton: opacity 1 on
\* every overlay. Playback that ends pauses the element (HTML standard).
firePause(pl) == SetOverlays([pl EXCEPT !.paused = TRUE], TRUE)

\* videoElement.src = videoSrc in onVideoLoaded. Assigning src restarts the
\* element's resource selection, which ends a playback under way and sets
\* paused; whether a 'pause' event is dispatched then is left open.
setSrc(pl, pauseFired) ==
    IF pl.paused THEN pl
    ELSE IF pauseFired THEN firePause(pl) ELSE [pl EXCEPT !.paused = TRUE]

\* showPlayButton: a new overlay, visible, is appended to the container.
showPlayButton(pl) == [pl EXCEPT !.overlays = Append(@, TRUE)]

\* One click listener of addVideoControls. play() succeeds or is refused (ok).
toggleClick(pl, ok) ==
    IF pl.paused THEN (IF ok THEN firePlay(pl) ELSE pl) ELSE firePause(pl)

\* The click listeners of the video element, one per addVideoControls call,
\* run in order.
RECURSIVE toggleEach(_, _, _)
toggleEach(pl, k, ok) ==
    IF k = 0 THEN pl ELSE toggleEach(toggleClick(pl, ok), k - 1, ok)

\* click on a loaded video
videoClick(p, ok) ==
    /\ ProjectPage /\ p \in registered /\ variant[p] = "video"
    /\ playButtons[p] >= 1
    /\ player' = [player EXCEPT ![p] = toggleEach(@, playButtons[p], ok)]
    /\ lastEvent' = <<"video", "click">>
    /\ UNCHANGED <<page, timers, registered, variant, dataSrc, observing, inflight, imgSrc,
                   flags, playButtons, errorMsgs, triggered, watcherLoads, attempts,
                   failures, hist, loadsLeft, inDocument, clickListeners, modal, rescans,
                   touchStartX, rebuildLog>>

\* click on the k-th play overlay (pointer-events: auto while it is visible):
\* videoElement.play().then(hide this overlay), the click does not propagate.
playButtonClick(p, k, ok) ==
    /\ ProjectPage /\ p \in registered /\ variant[p] = "video"
    /\ k \in DOMAIN player[p].overlays /\ player[p].overlays[k]
    /\ player' = [player EXCEPT ![p] =
                     IF ~ok THEN @
                     ELSE IF @.paused THEN firePlay(@)
                     ELSE [@ EXCEPT !.overlays[k] = FALSE]]
    /\ lastEvent' = <<"video", "playButton">>
    /\ UNCHANGED <<page, timers, registered, variant, dataSrc, observing, inflight, imgSrc,
                   flags, playButtons, errorMsgs, triggered, watcherLoads, attempts,
                   failures, hist, loadsLeft, inDocument, clickListeners, modal, rescans,
                   touchStartX, rebuildLog>>

VideoEvents == {"play", "pause", "ended"}

\* The element's own controls or another script start or pause playback, or
\* playback reaches the end: the 'play' / 'pause' / 'ended' event of a loaded video
videoEvent(p, ev) ==
    /\ ProjectPage /\ p \in registered /\ variant[p] = "video"
    /\ imgSrc[p] # NoSrc
    /\ player[p].paused = (ev = "play")
    /\ player' = [player EXCEPT ![p] = IF ev = "play" THEN firePlay(@) ELSE firePause(@)]
    /\ lastEvent' = <<"video", ev>>
    /\ UNCHANGED <<page, timers, registered, variant, dataSrc, observing, inflight, imgSrc,
                   flags, playButtons, errorMsgs, triggered, watcherLoads, attempts,
                   failures, hist, loadsLeft, inDocument, clickListeners, modal, rescans,
                   touchStartX, rebuildLog>>

\* 'loadeddata' on the probe: onVideoLoaded, addVideoControls, showPlayButton
onVideoLoaded(f) ==
    /\ ProjectPage /\ BagIn(f, inflight) /\ variant[f.p] = "video"
    /\ inflight' = inflight (-) OneOf(f)
    /\ imgSrc' = [imgSrc EXCEPT ![f.p] = Url(f.p)]
    /\ flags' = [flags EXCEPT ![f.p] = @ \cup {"loaded", "loader-hidden"}]
    /\ observing' = [observing EXCEPT ![f.p] = @ \ {"A"}]
    /\ playButtons' = [playButtons EXCEPT ![f.p] = @ + 1]
    /\ \E pauseFired \in BOOLEAN :
          player' = [player EXCEPT ![f.p] = showPlayButton(setSrc(@, pauseFired))]
    /\ hist' = [hist EXCEPT ![f.p] = Append(@, "Loaded")]
    /\ UNCHANGED <<page, registered, loadsLeft, variant, dataSrc, timers, errorMsgs, triggered,
                   watcherLoads, attempts, failures, galleryVars>>

\* Variant of the action below that leaves the video observed.
onVideoErrorObserved(f) ==
    /\ ProjectPage /\ BagIn(f, inflight) /\ variant[f.p] = "video"
    /\ inflight' = inflight (-) OneOf(f)
    /\ flags' = [flags EXCEPT ![f.p] = @ \cup {"loader-hidden", "video-error"}]
    /\ errorMsgs' = [errorMsgs EXCEPT ![f.p] = @ + 1]
    /\ failures' = [failures EXCEPT ![f.p] = @ + 1]
    /\ hist' = [hist EXCEPT ![f.p] = Append(@, "Failed")]
    /\ UNCHANGED <<page, registered, loadsLeft, variant, dataSrc, timers, imgSrc,
                   playButtons, player, triggered, watcherLoads, attempts, observing,
                   galleryVars>>

\* 'error' on the probe: onVideoError
onVideoError(f) ==
    /\ ProjectPage /\ BagIn(f, inflight) /\ variant[f.p] = "video"
    /\ inflight' = inflight (-) OneOf(f)
    /\ flags' = [flags EXCEPT ![f.p] = @ \cup {"loader-hidden", "video-error"}]
    /\ errorMsgs' = [errorMsgs EXCEPT ![f.p] = @ + 1]
    /\ observing' = [observing EXCEPT ![f.p] = @ \ {"A"}]
    /\ failures' = [failures EXCEPT ![f.p] = @ + 1]
    /\ hist' = [hist EXCEPT ![f.p] = Append(@, "Failed")]
    /\ UNCHANGED <<page, registered, loadsLeft, variant, dataSrc, timers, imgSrc,
                   playButtons, player, triggered, watcherLoads, attempts, galleryVars>>

Media == 1..NumMedia

InitMedia ==
    /\ page \in {"BTZ", "AIAA"}
    /\ variant \in [Placeholders -> {"badge", "video", "none"}]
    /\ \A p \in Placeholders : (variant[p] = "none") = (p \notin Media)
    /\ InitCommon(Media)
    /\ observing = [p \in Placeholders |->
                      IF p \in Media THEN Observers(page, variant[p]) ELSE {}]
    /\ flags = [p \in Placeholders |->
                  IF variant[p] = "video" THEN {"loader-hidden"} ELSE {}]
    /\ timers = <<>>
    /\ inDocument = {}
    /\ clickListeners = [p \in Placeholders |-> <<>>]
    /\ modal = NoModal
    /\ rescans = 0
    /\ touchStartX = [s \in {} |-> 0]
    /\ rebuildLog = [s \in {} |-> NoRebuilds]
    /\ loadsLeft = 0
    /\ lastEvent = <<"init">>

NextMedia ==
    \/ \E p \in Placeholders, b \in BOOLEAN : badgeObserver(p, b)
    \/ \E f \in BagToSet(inflight) : badgeOnload(f)
    \/ \E f \in BagToSet(inflight) : badgeOnerror(f)
    \/ \E p \in Placeholders, b \in BOOLEAN : imageObserver(p, b)
    \/ \E f \in BagToSet(inflight) : loadBadgeLogoOnload(f)
    \/ \E f \in BagToSet(inflight) : loadBadgeLogoOnerror(f)
    \/ \E p \in Placeholders, b \in BOOLEAN : videoObserver(p, b)
    \/ \E p \in Placeholders : loadVideoById(p)
    \/ \E f \in BagToSet(inflight) : onVideoLoaded(f)
    \/ \E f \in BagToSet(inflight) : onVideoError(f)
    \/ \E p \in Placeholders, ok \in BOOLEAN : videoClick(p, ok)
    \/ \E p \in Placeholders, k \in 1..MaxFetches, ok \in BOOLEAN : playButtonClick(p, k, ok)
    \/ \E p \in Placeholders, ev \in VideoEvents : videoEvent(p, ev)

SpecMedia == InitMedia /\ [][NextMedia]_vars

\* ---- lazy gallery images: initializeLazyImages (BTZ), LazyImageLoader (AIAA)
Room(k) == Len(timers) + k <= MaxTimers

lazyImageObserver(p, isIntersecting) ==
    /\ ProjectPage /\ p \in registered /\ variant[p] = "lazy"
    /\ "A" \in observing[p]
    /\ IF isIntersecting
       THEN /\ MayLoad(p)
            /\ IssueProbe(p, 0, "A")      \* loadImage(p)
            /\ observing' = [observing EXCEPT ![p] = @ \ {"A"}]
            /\ triggered' = [triggered EXCEPT ![p] = TRUE]
            /\ watcherLoads' = [watcherLoads EXCEPT ![p] = @ + 1]
            /\ loadsLeft' = IF variant[p] = "lazy" THEN loadsLeft - 1 ELSE loadsLeft
       ELSE UNCHANGED <<inflight, attempts, hist, observing, triggered, watcherLoads,
                         loadsLeft>>
    /\ lastEvent' = <<"env">>
    /\ UNCHANGED <<touchStartX, rebuildLog>>
    /\ UNCHANGED <<page, registered, variant, dataSrc, timers, imgSrc, flags, playButtons,
                   player, errorMsgs, failures, inDocument, clickListeners, modal, rescans>>

\* Variant of the operator below that asks for no re-scan.
RebuildTimersNone(f) == <<>>

\* setTimeout(initializeModal, 100) / setTimeout(() => imageModal.reinitialize(), 100)
\* in tempImg.onload of loadImage
RebuildTimers(f) == <<Timer("rebuild", 0, 0, f.owner)>>

\* tempImg.onload of loadImage: the probe of implementation f.owner succeeded.
\* The re-scan it schedules is initializeModal on BTZ, imageModal.reinitialize
\* for AIAA's LazyImageLoader (both session A) and the second implementation's
\* initializeModal for AIAA's second loadImage (session B).
loadImageOnload(f) ==
    /\ ProjectPage /\ BagIn(f, inflight) /\ variant[f.p] = "lazy"
    /\ Room(1)
    /\ inflight' = inflight (-) OneOf(f)
    /\ imgSrc' = [imgSrc EXCEPT ![f.p] = Url(f.p)]
    /\ flags' = [flags EXCEPT ![f.p] =
                    (@ \ {"lazy"}) \cup {"loaded", "loader-hidden", "fade-in", "src-pending"}]
    /\ timers' \in Schedule(timers, RebuildTimers(f), 1)
    /\ hist' = [hist EXCEPT ![f.p] = Append(@, "Loaded")]
    /\ lastEvent' = <<"env">>
    /\ rebuildLog' = [rebuildLog EXCEPT ![f.owner].loaded = @ + 1]
    /\ UNCHANGED touchStartX
    /\ UNCHANGED <<page, registered, loadsLeft, variant, dataSrc, observing, playButtons,
                   player, errorMsgs, triggered, watcherLoads, attempts, failures,
                   inDocument, clickListeners, modal, rescans>>

\* tempImg.onerror of loadImage: implementation A sets the alt text, the
\* second implementation of AIAA installs handleImageError (already installed)
loadImageOnerror(f) ==
    /\ ProjectPage /\ BagIn(f, inflight) /\ variant[f.p] = "lazy"
    /\ inflight' = inflight (-) OneOf(f)
    /\ flags' = [flags EXCEPT ![f.p] =
                    IF f.owner = "A" THEN @ \cup {"alt-failed", "loader-hidden"}
                                     ELSE @ \cup {"loader-hidden"}]
    /\ failures' = [failures EXCEPT ![f.p] = @ + 1]
    /\ hist' = [hist EXCEPT ![f.p] = Append(@, "Failed")]
    /\ lastEvent' = <<"env">>
    /\ UNCHANGED <<touchStartX, rebuildLog>>
    /\ UNCHANGED <<page, registered, loadsLeft, variant, dataSrc, observing, timers, imgSrc,
                   playButtons, player, errorMsgs, triggered, watcherLoads, attempts,
                   inDocument, clickListeners, modal, rescans>>

\* The visible element finishes loading the src it was given.
imgLoad(p) ==
    /\ ProjectPage /\ variant[p] = "lazy" /\ "src-pending" \in flags[p]
    /\ flags' = [flags EXCEPT ![p] = @ \ {"src-pending"}]
    /\ lastEvent' = <<"env">>
    /\ UNCHANGED <<touchStartX, rebuildLog>>
    /\ UNCHANGED <<page, registered, loadsLeft, variant, dataSrc, observing, inflight,
                   timers, imgSrc, playButtons, player, errorMsgs, triggered, watcherLoads,
                   attempts, failures, hist, inDocument, clickListeners, modal, rescans>>

\* img.onerror installed by handleImageError on every img: the visible element
\* fails to load its src; it is hidden and its .lazy-image-wrapper's content is
\* replaced by the 'Image unavailable' note, which detaches the image.
handleImageError(p) ==
    /\ ProjectPage /\ variant[p] = "lazy" /\ "src-pending" \in flags[p]
    /\ flags' = [flags EXCEPT ![p] =
                    (@ \ {"src-pending"}) \cup
                    (IF page = "AIAA" THEN {"display-none", "alt-failed"}
                                      ELSE {"display-none"})]
    /\ inDocument' = inDocument \ {p}
    /\ lastEvent' = <<"env">>
    /\ UNCHANGED <<touchStartX, rebuildLog>>
    /\ UNCHANGED <<page, registered, loadsLeft, variant, dataSrc, observing, inflight,
                   timers, imgSrc, playButtons, player, errorMsgs, triggered, watcherLoads,
                   attempts, failures, hist, clickListeners, modal, rescans>>

\* =============================================================== lightbox
\* initializeImageModal (BTZ); ImageModal (AIAA, session A) and the second
\* modal implementation (AIAA, session B), which share the overlay's elements.

Sessions(pg) == IF pg = "AIAA" THEN {"A", "B"} ELSE {"A"}

\* The listeners of one event target run in the order they were added.
SessionOrder(pg) == IF pg = "AIAA" THEN <<"A", "B">> ELSE <<"A">>

\* img.alt, and the text of the figure's figcaption ("" when the image has no
\* figcaption: here the even-numbered images).
Alt(g) == IF "alt-failed" \in flags[g] THEN "Failed to load image" ELSE "image"
Figcaption(g) == IF g % 2 = 1 THEN "caption" ELSE ""

\* The gallery-eligible images of the document, in document order.
RECURSIVE DocOrder(_, _)
DocOrder(S, from) ==
    IF \A g \in S : g < from THEN <<>>
    ELSE IF from \in S THEN <<from>> \o DocOrder(S, from + 1)
    ELSE DocOrder(S, from + 1)

projectImages == DocOrder(inDocument, 1)

\* { src: img.src || img.dataset.src, alt: img.alt, caption: figcaption || alt }
GalleryEntry(g) ==
    [img |-> g,
     src |-> IF imgSrc[g] # NoSrc THEN imgSrc[g] ELSE Url(g),
     alt |-> Alt(g),
     caption |-> IF Figcaption(g) # "" THEN Figcaption(g) ELSE Alt(g)]

\* The operations of a session take and give the lightbox state w: the modal
\* and the timers the running callback has scheduled so far.
HidePrev(index) == index = 0

\* Variant of the check below that is one past the last entry.
HideNextOffByOne(index, length) == index = length

HideNext(index, length) == index = length - 1

updateNavigationButtons(m, s) ==
    [m EXCEPT
       !.prevDisplay = IF HidePrev(m.currentImageIndex[s]) THEN "none" ELSE "block",
       !.nextDisplay = IF HideNext(m.currentImageIndex[s], Len(m.galleryImages[s]))
                       THEN "none" ELSE "block"]

\* A closeModal's hide timer has not fired yet.
HidePending == \E i \in 1..Len(timers) : timers[i].kind = "close"

\* Variant of openModal that leaves the page body as it is.
openModalNoLock(w, s, index) ==
    LET m1 == [w.m EXCEPT !.currentImageIndex[s] = index] IN
    IF index < 0 \/ index >= Len(m1.galleryImages[s])
    THEN [w EXCEPT !.m = m1]
    ELSE LET imageData == m1.galleryImages[s][index + 1]
             m2 == [m1 EXCEPT !.src = imageData.src,
                              !.alt = imageData.alt,
                              !.caption = imageData.caption,
                              !.display = "flex",
                              !.isOpen[s] = TRUE,
                              !.reopened = HidePending]
         IN [m |-> updateNavigationButtons(m2, s),
             sched |-> Append(w.sched, Timer("show", 0, 0, s))]

\* openModal(index). galleryImages[index] is undefined for an index outside
\* the array, and reading its src then throws after currentImageIndex was set.
openModal(w, s, index) ==
    LET m1 == [w.m EXCEPT !.currentImageIndex[s] = index] IN
    IF index < 0 \/ index >= Len(m1.galleryImages[s])
    THEN [w EXCEPT !.m = m1]
    ELSE LET imageData == m1.galleryImages[s][index + 1]
             m2 == [m1 EXCEPT !.src = imageData.src,
                              !.alt = imageData.alt,
                              !.caption = imageData.caption,
                              !.display = "flex",
                              !.bodyModalOpen = TRUE,
                              !.isOpen[s] = TRUE,
                              !.reopened = HidePending]
         IN [m |-> updateNavigationButtons(m2, s),
             sched |-> Append(w.sched, Timer("show", 0, 0, s))]

closeModal(w, s) ==
    [m |-> [w.m EXCEPT !.show = FALSE, !.isOpen[s] = FALSE, !.reopened = FALSE],
     sched |-> Append(w.sched, Timer("close", 0, 0, s))]

\* Variant of the check below that also steps back from the first entry.
CanShowPrevOffByOne(index) == index >= 0

CanShowPrev(index) == index > 0

\* Variant of the check below that also steps forward from the last entry.
CanShowNextOffByOne(index, length) == index < length

CanShowNext(index, length) == index < length - 1

showPrevImage(w, s) ==
    IF CanShowPrev(w.m.currentImageIndex[s])
    THEN openModal(w, s, w.m.currentImageIndex[s] - 1)
    ELSE w

showNextImage(w, s) ==
    IF CanShowNext(w.m.currentImageIndex[s], Len(w.m.galleryImages[s]))
    THEN openModal(w, s, w.m.currentImageIndex[s] + 1)
    ELSE w

Now == [m |-> modal, sched |-> <<>>]

\* The click listeners of a control shared by the sessions, run in order.
RECURSIVE closeEach(_, _)
closeEach(w, order) ==
    IF order = <<>> THEN w ELSE closeEach(closeModal(w, Head(order)), Tail(order))

RECURSIVE prevEach(_, _)
prevEach(w, order) ==
    IF order = <<>> THEN w ELSE prevEach(showPrevImage(w, Head(order)), Tail(order))

RECURSIVE nextEach(_, _)
nextEach(w, order) ==
    IF order = <<>> THEN w ELSE nextEach(showNextImage(w, Head(order)), Tail(order))

\* The click listeners of a gallery image, run in order.
RECURSIVE RunListeners(_, _)
RunListeners(w, ls) ==
    IF ls = <<>> THEN w
    ELSE RunListeners(openModal(w, Head(ls).s, Head(ls).index), Tail(ls))

\* The callback ends: the modal is as the operations left it and the timers
\* they scheduled (all 'show', or all 'close') are queued.
Commit(w, ev) ==
    /\ Len(timers) + Len(w.sched) <= MaxTimers
    /\ modal' = w.m
    /\ timers' \in Schedule(timers, w.sched, 1)
    /\ lastEvent' = ev
    /\ UNCHANGED <<touchStartX, rebuildLog>>
    /\ UNCHANGED <<page, loaderVars, inDocument, clickListeners, rescans>>

\* click on a gallery image
imageClick(g) ==
    /\ ProjectPage /\ g \in inDocument
    /\ Commit(RunListeners(Now, clickListeners[g]), <<"click", g>>)

\* click on the close control
closeClick ==
    /\ ProjectPage /\ modal.display = "flex"
    /\ Commit(closeEach(Now, SessionOrder(page)), <<"close">>)

\* click on the overlay's backdrop (e.target === modal)
backdropClick ==
    /\ ProjectPage /\ modal.display = "flex"
    /\ Commit(closeEach(Now, SessionOrder(page)), <<"backdrop">>)

\* click on the previous / next control
prevClick ==
    /\ ProjectPage /\ modal.display = "flex" /\ modal.prevDisplay # "none"
    /\ Commit(prevEach(Now, SessionOrder(page)), <<"prev">>)

nextClick ==
    /\ ProjectPage /\ modal.display = "flex" /\ modal.nextDisplay # "none"
    /\ Commit(nextEach(Now, SessionOrder(page)), <<"next">>)

\* One keydown listener of a session: BTZ's, and ImageModal's on AIAA.
KeyGate(m) == m.show

sessionKeydown(w, s, key) ==
    IF ~KeyGate(w.m) THEN w
    ELSE CASE key = "Escape"     -> closeModal(w, s)
           [] key = "ArrowLeft"  -> showPrevImage(w, s)
           [] key = "ArrowRight" -> showNextImage(w, s)

\* AIAA's document keydown listener of the second implementation: it clicks
\* the overlay's controls, which runs the listeners of both sessions.
documentKeydown(w, key) ==
    IF ~KeyGate(w.m) THEN w
    ELSE CASE key = "Escape"     -> closeEach(w, SessionOrder("AIAA"))
           [] key = "ArrowLeft"  -> prevEach(w, SessionOrder("AIAA"))
           [] key = "ArrowRight" -> nextEach(w, SessionOrder("AIAA"))

\* The keydown listeners of the page, in the order they were added: on AIAA
\* the top-level document listener, then ImageModal's.
KeyListeners(w, pg, key) ==
    IF pg = "AIAA" THEN sessionKeydown(documentKeydown(w, key), "A", key)
    ELSE sessionKeydown(w, "A", key)

Keys == {"Escape", "ArrowLeft", "ArrowRight"}

keydown(key) ==
    /\ ProjectPage
    /\ Commit(KeyListeners(Now, page, key), <<"key", key>>)

\* Variant of the check below that also takes a delta of exactly the threshold.
SwipeNextInclusive(start, end) == end <= start - SwipeThreshold

\* if (touchEndX < touchStartX - 50) / if (touchEndX > touchStartX + 50)
SwipeNext(start, end) == end < start - SwipeThreshold
SwipePrev(start, end) == end > start + SwipeThreshold

\* The touchend listener of session s (handleSwipe in AIAA's second
\* implementation), with touchEndX = end.
handleSwipe(w, s, end) ==
    LET w1 == IF SwipeNext(touchStartX[s], end) THEN showNextImage(w, s) ELSE w
    IN IF SwipePrev(touchStartX[s], end) THEN showPrevImage(w1, s) ELSE w1

\* The touchend listeners of the overlay, run in order.
RECURSIVE swipeEach(_, _, _)
swipeEach(w, order, end) ==
    IF order = <<>> THEN w
    ELSE swipeEach(handleSwipe(w, Head(order), end), Tail(order), end)

\* screenX values of touches
TouchXs == {0, SwipeThreshold, 2 * SwipeThreshold + 1}

\* touchstart on the overlay: every session's listener records screenX
touchstart(x) ==
    /\ ProjectPage /\ modal.display = "flex"
    /\ touchStartX' = [s \in DOMAIN touchStartX |-> x]
    /\ lastEvent' = <<"touchstart">>
    /\ UNCHANGED <<page, timers, loaderVars, inDocument, clickListeners, modal, rescans,
                   rebuildLog>>

\* touchend on the overlay
touchend(x) ==
    /\ ProjectPage /\ modal.display = "flex"
    /\ Commit(swipeEach(Now, SessionOrder(page), x), <<"touchend", x>>)

\* initializeModal / initializeImages of session s: the entry sequence is
\* rebuilt from the document and every image gets one more click listener.
\* Variant of the operator below that also goes back to the first entry.
RebuiltFromFirst(m, s) ==
    [m EXCEPT !.galleryImages[s] =
                 [i \in 1..Len(projectImages) |-> GalleryEntry(projectImages[i])],
              !.currentImageIndex[s] = 0]

Rebuilt(m, s) ==
    [m EXCEPT !.galleryImages[s] =
        [i \in 1..Len(projectImages) |-> GalleryEntry(projectImages[i])]]

\* Variant of the operator below whose listeners count the images from 1.
AddListenersOneBased(s) ==
    [g \in Placeholders |->
        IF g \in inDocument
        THEN Append(clickListeners[g],
                    [s |-> s,
                     index |-> CHOOSE i \in 1..Len(projectImages) : projectImages[i] = g])
        ELSE clickListeners[g]]

AddListeners(s) ==
    [g \in Placeholders |->
        IF g \in inDocument
        THEN Append(clickListeners[g],
                    [s |-> s,
                     index |-> (CHOOSE i \in 1..Len(projectImages) : projectImages[i] = g) - 1])
        ELSE clickListeners[g]]

initializeModal(s) ==
    /\ modal' = Rebuilt(modal, s)
    /\ clickListeners' = AddListeners(s)

\* window.initializeModal, called by another script of the page: BTZ's
\* initializeModal, on AIAA the second implementation's (it replaces the
\* wrapper around imageModal.reinitialize at startup).
GlobalSession(pg) == IF pg = "AIAA" THEN "B" ELSE "A"

rescan ==
    /\ ProjectPage /\ rescans < MaxRescan
    /\ initializeModal(GlobalSession(page))
    /\ rescans' = rescans + 1
    /\ lastEvent' = <<"rescan", GlobalSession(page)>>
    /\ UNCHANGED <<touchStartX, rebuildLog>>
    /\ UNCHANGED <<page, timers, loaderVars, inDocument>>

\* The timers of a gallery page.
GalleryTimer ==
    /\ ProjectPage /\ timers # <<>>
    /\ timers' = Tail(timers)
    /\ LET t == Head(timers) IN
       /\ CASE t.kind = "show" ->
                 /\ modal' = [modal EXCEPT !.show = TRUE]
                 /\ UNCHANGED clickListeners
            [] t.kind = "close" ->
                 /\ modal' = [modal EXCEPT !.display = "none", !.bodyModalOpen = FALSE]
                 /\ UNCHANGED clickListeners
            [] t.kind = "rebuild" -> initializeModal(t.s)
       /\ rebuildLog' = IF t.kind = "rebuild"
                        THEN [rebuildLog EXCEPT ![t.s].rebuilt = @ + 1]
                        ELSE rebuildLog
       /\ lastEvent' = IF t.kind = "rebuild" THEN <<"rebuild", t.s>> ELSE <<"env">>
       /\ UNCHANGED touchStartX
    /\ UNCHANGED <<page, loaderVars, inDocument, rescans>>

\* A project page has between one and NumGallery gallery images.
GallerySizes == 1..NumGallery

\* The state when the DOMContentLoaded listeners have run: the images are
\* observed; BTZ and AIAA's second implementation have scheduled their first
\* initializeModal, ImageModal's constructor has run initializeImages.
InitProject(sizes, loads) ==
    /\ page \in {"BTZ", "AIAA"}
    /\ \E n \in sizes :
          /\ variant = [p \in Placeholders |-> IF p \in 1..n THEN "lazy" ELSE "none"]
          /\ InitCommon(1..n)
    /\ observing = [p \in Placeholders |->
                      IF p \in registered THEN Observers(page, "lazy") ELSE {}]
    /\ flags = [p \in Placeholders |-> IF p \in registered THEN {"lazy"} ELSE {}]
    /\ inDocument = registered
    /\ rescans = 0
    /\ touchStartX = [s \in Sessions(page) |-> 0]
    /\ rebuildLog = [s \in Sessions(page) |-> NoRebuilds]
    /\ loadsLeft = loads
    /\ lastEvent = <<"init">>
    /\ timers = <<Timer("rebuild", 0, 0, GlobalSession(page))>>
    /\ LET m0 == [currentImageIndex |-> [s \in Sessions(page) |-> 0],
                  galleryImages |-> [s \in Sessions(page) |-> <<>>],
                  isOpen |-> [s \in Sessions(page) |-> FALSE], reopened |-> FALSE,
                  display |-> "none", show |-> FALSE, bodyModalOpen |-> FALSE,
                  src |-> NoSrc, alt |-> "", caption |-> "",
                  prevDisplay |-> "", nextDisplay |-> ""]
       IN IF page = "AIAA"
          THEN /\ modal = [m0 EXCEPT !.galleryImages["A"] =
                             [i \in 1..Cardinality(registered) |->
                                [img |-> i, src |-> Url(i), alt |-> "image",
                                 caption |-> IF Figcaption(i) # "" THEN Figcaption(i)
                                             ELSE "image"]]]
               /\ clickListeners = [p \in Placeholders |->
                     IF p \in registered THEN <<[s |-> "A", index |-> p - 1]>> ELSE <<>>]
          ELSE /\ modal = m0
               /\ clickListeners = [p \in Placeholders |-> <<>>]

InitGallery == InitProject(GallerySizes, MaxLoads)

NextGallery ==
    \/ \E p \in Placeholders, b \in BOOLEAN : lazyImageObserver(p, b)
    \/ \E p \in Placeholders, b \in BOOLEAN : imageObserver(p, b)
    \/ \E f \in BagToSet(inflight) : loadImageOnload(f)
    \/ \E f \in BagToSet(inflight) : loadImageOnerror(f)
    \/ \E p \in Placeholders : imgLoad(p)
    \/ \E p \in Placeholders : handleImageError(p)
    \/ \E g \in Placeholders : imageClick(g)
    \/ closeClick
    \/ backdropClick
    \/ prevClick
    \/ nextClick
    \/ \E key \in Keys : keydown(key)
    \/ rescan
    \/ GalleryTimer

SpecGallery == InitGallery /\ [][NextGallery]_vars

\* ---- the loaders of a project page without the visitor's input: up to
\* MaxLoaderLoads loads of gallery images, their completions in every order,
\* and the timers.
InitLoader == InitProject(GallerySizes, MaxLoaderLoads)

NextLoader ==
    \/ \E p \in Placeholders, b \in BOOLEAN : lazyImageObserver(p, b)
    \/ \E p \in Placeholders, b \in BOOLEAN : imageObserver(p, b)
    \/ \E f \in BagToSet(inflight) : loadImageOnload(f)
    \/ \E f \in BagToSet(inflight) : loadImageOnerror(f)
    \/ \E p \in Placeholders : imgLoad(p)
    \/ \E p \in Placeholders : handleImageError(p)
    \/ GalleryTimer

SpecLoader == InitLoader /\ [][NextLoader]_vars

\* ---- the lightbox with every input, on a page whose gallery images are not
\* scrolled into view: between one and NumEntries images, none loads.
InitLightbox == InitProject(1..NumEntries, 0)

NextLightbox ==
    \/ \E g \in Placeholders : imageClick(g)
    \/ closeClick
    \/ backdropClick
    \/ prevClick
    \/ nextClick
    \/ \E key \in Keys : keydown(key)
    \/ \E x \in TouchXs : touchstart(x)
    \/ \E x \in TouchXs : touchend(x)
    \/ rescan
    \/ GalleryTimer

SpecLightbox == InitLightbox /\ [][NextLightbox]_vars

\* ---- startup without the IntersectionObserver primitive
\* The main page's script throws at its first `new IntersectionObserver` (the
\* top-level fadeObserver), before it registers its DOMContentLoaded listener:
\* nothing is observed and no listener exists. The project pages test for the
\* primitive: lazy images and badges get their data-src as src at once
\* (loadImagesImmediately, initializeBadgeLogos; on AIAA the badges by the
\* second implementation only), the videos are loaded by loadAllVideos, and
\* the lightbox is set up as usual.
FallbackMedia == (NumGallery + 1)..(NumGallery + NumMedia)

loadImagesImmediately(p) == {"loaded", "loader-hidden", "src-pending"}

loadAllVideos ==
    SetToBag({Fetch(p, 0, "A", "probe") : p \in {q \in registered : variant[q] = "video" /\ dataSrc[q]}})

InitFallback ==
    /\ page \in {"main", "BTZ", "AIAA"}
    /\ variant \in [Placeholders -> {"profile", "experience", "lazy", "badge", "video", "none"}]
    /\ \A p \in Placeholders :
          IF page = "main"
          THEN IF p \in MainImages THEN variant[p] \in {"profile", "experience"}
               ELSE variant[p] = "none"
          ELSE IF p \in 1..NumGallery THEN variant[p] = "lazy"
               ELSE IF p \in FallbackMedia THEN variant[p] \in {"badge", "video"}
               ELSE variant[p] = "none"
    /\ registered = {p \in Placeholders : variant[p] # "none"}
    /\ dataSrc \in [Placeholders -> BOOLEAN]
    /\ \A p \in Placeholders :
          IF p \in registered THEN (variant[p] # "video" => dataSrc[p]) ELSE ~dataSrc[p]
    /\ observing = [p \in Placeholders |-> {}]
    /\ inflight = IF page = "main" THEN EmptyBag ELSE loadAllVideos
    /\ imgSrc = [p \in Placeholders |->
                   IF variant[p] \in {"lazy", "badge"} THEN Url(p) ELSE NoSrc]
    /\ flags = [p \in Placeholders |->
                  CASE variant[p] = "lazy" -> loadImagesImmediately(p)
                    [] variant[p] = "badge" -> {"loaded"}
                    [] OTHER -> {}]
    /\ playButtons = [p \in Placeholders |-> 0]
    /\ player = [p \in Placeholders |-> NoPlayer]
    /\ errorMsgs = [p \in Placeholders |-> 0]
    /\ triggered = [p \in Placeholders |-> FALSE]
    /\ watcherLoads = [p \in Placeholders |-> 0]
    /\ attempts = [p \in Placeholders |->
                     IF variant[p] = "video" /\ dataSrc[p] THEN 1 ELSE 0]
    /\ failures = [p \in Placeholders |-> 0]
    /\ hist = [p \in Placeholders |->
                 CASE variant[p] \in {"lazy", "badge"} -> <<"Pending", "Loaded">>
                   [] variant[p] = "video" /\ dataSrc[p] -> <<"Pending", "Loading">>
                   [] variant[p] = "none" -> <<>>
                   [] OTHER -> <<"Pending">>]
    /\ inDocument = {p \in Placeholders : variant[p] = "lazy"}
    /\ rescans = 0
    /\ loadsLeft = 0
    /\ lastEvent = <<"init">>
    /\ IF page = "main"
       THEN /\ timers = <<>>
            /\ modal = NoModal
            /\ touchStartX = [s \in {} |-> 0]
            /\ rebuildLog = [s \in {} |-> NoRebuilds]
            /\ clickListeners = [p \in Placeholders |-> <<>>]
       ELSE /\ timers = <<Timer("rebuild", 0, 0, GlobalSession(page))>>
            /\ touchStartX = [s \in Sessions(page) |-> 0]
            /\ rebuildLog = [s \in Sessions(page) |-> NoRebuilds]
            /\ LET m0 == [NoModal EXCEPT
                            !.currentImageIndex = [s \in Sessions(page) |-> 0],
                            !.galleryImages = [s \in Sessions(page) |-> <<>>],
                            !.isOpen = [s \in Sessions(page) |-> FALSE]]
               IN IF page = "AIAA"
                  THEN /\ modal = [m0 EXCEPT !.galleryImages["A"] =
                                     [i \in 1..NumGallery |-> GalleryEntry(i)]]
                       /\ clickListeners = [p \in Placeholders |->
                             IF p \in inDocument THEN <<[s |-> "A", index |-> p - 1]>>
                             ELSE <<>>]
                  ELSE /\ modal = m0
                       /\ clickListeners = [p \in Placeholders |-> <<>>]

NextFallback ==
    \/ \E p \in Placeholders : imgLoad(p)
    \/ \E p \in Placeholders : handleImageError(p)
    \/ \E f \in BagToSet(inflight) : onVideoLoaded(f)
    \/ \E f \in BagToSet(inflight) : onVideoError(f)
    \/ GalleryTimer

SpecFallback == InitFallback /\ [][NextFallback]_vars

\* ================================================================== claims

Min(a, b) == IF a < b THEN a ELSE b

Last(h) == h[Len(h)]

\* The placeholder's last observed state is Loaded or Failed.
Terminal(p) == Len(hist[p]) > 1 /\ Last(hist[p]) \in {"Loaded", "Failed"}

LoadingCount(p) == Cardinality({i \in 1..Len(hist[p]) : hist[p][i] = "Loading"})

RetryPending(p) ==
    \E i \in 1..Len(timers) : timers[i].kind = "retry" /\ timers[i].p = p

\* C1: a placeholder loaded by loadImageWithRetry with retry budget 3 is
\* Pending, then Loading once per fetch attempt, then in one terminal state
\* (Loaded or Failed) that is the last entry of its history, so nothing is
\* issued after it; at most 4 attempts are made, at the terminal state their
\* number is min(failures + 1, 4), no probe is in flight, no retry is pending
\* and the observer has let go of the placeholder.
C1_LifeCycle ==
    \A p \in registered :
        /\ hist[p][1] = "Pending"
        /\ \A i \in 2..Len(hist[p]) :
              \/ hist[p][i] = "Loading"
              \/ i = Len(hist[p]) /\ hist[p][i] \in {"Loaded", "Failed"}
        /\ LoadingCount(p) = attempts[p]
        /\ attempts[p] <= RetryBudget + 1
        /\ ProbesInFlight(p) + (IF RetryPending(p) THEN 1 ELSE 0) <= 1
        /\ Terminal(p) =>
              /\ attempts[p] = Min(failures[p] + 1, RetryBudget + 1)
              /\ (Last(hist[p]) = "Failed") = (failures[p] = RetryBudget + 1)
              /\ ProbesInFlight(p) = 0
              /\ ~RetryPending(p)
              /\ "A" \notin observing[p]

\* C1 witness: a placeholder whose four attempts all failed.
C1_Exhausted ==
    \E p \in registered :
        hist[p] = <<"Pending", "Loading", "Loading", "Loading", "Loading", "Failed">>

\* C2: at most one fetch of a placeholder's deferred URL is in flight at any
\* moment.
C2_OneFetchInFlight == \A p \in registered : InFlight(p) <= 1

\* C3: the viewport watchers start a load of a placeholder at most once.
C3_WatcherFiresOnce == \A p \in registered : watcherLoads[p] <= 1

C5_IndexInRange ==
    \A s \in DOMAIN modal.isOpen :
        modal.isOpen[s] =>
            /\ 0 <= modal.currentImageIndex[s]
            /\ modal.currentImageIndex[s] < Len(modal.galleryImages[s])

\* C6: when open ran after a close whose hide timer was still pending, and no
\* close ran since, then once all pending timers have fired the overlay is
\* displayed and shown.
C6_ReopenSupersedesHide ==
    (modal.reopened /\ timers = <<>>) => (modal.display = "flex" /\ modal.show)

\* C7: for every session and every i within its entry sequence, open(i) sets
\* currentIndex to i, shows entry i's image, alt text and caption, displays the
\* overlay, hides "previous" exactly when i = 0 and "next" exactly when i is
\* the last index; and the state a click on a gallery image leaves is the one
\* its last listener's open produced.
C7_OpenShowsEntry ==
    /\ \A s \in DOMAIN modal.galleryImages :
          \A i \in 0..(Len(modal.galleryImages[s]) - 1) :
              LET n == Len(modal.galleryImages[s])
                  e == modal.galleryImages[s][i + 1]
                  w == openModal(Now, s, i)
              IN /\ w.m.currentImageIndex[s] = i
                 /\ w.m.src = e.src /\ w.m.alt = e.alt /\ w.m.caption = e.caption
                 /\ w.m.display = "flex" /\ w.m.isOpen[s]
                 /\ (w.m.prevDisplay = "none") = (i = 0)
                 /\ (w.m.nextDisplay = "none") = (i = n - 1)
                 /\ w.m.prevDisplay \in {"none", "block"}
                 /\ w.m.nextDisplay \in {"none", "block"}
                 /\ n = 1 => (w.m.prevDisplay = "none" /\ w.m.nextDisplay = "none")
                 /\ w.sched = <<Timer("show", 0, 0, s)>>
    /\ \A g \in registered :
          (lastEvent = <<"click", g>> /\ clickListeners[g] # <<>>) =>
              LET l == Last(clickListeners[g])
                  n == Len(modal.galleryImages[l.s])
              IN l.index < n =>
                    /\ modal.currentImageIndex[l.s] = l.index
                    /\ modal.src = modal.galleryImages[l.s][l.index + 1].src
                    /\ modal.caption = modal.galleryImages[l.s][l.index + 1].caption
                    /\ modal.display = "flex"
                    /\ (modal.prevDisplay = "none") = (l.index = 0)
                    /\ (modal.nextDisplay = "none") = (l.index = n - 1)

\* C7 witness: a click opened the last of at least two entries, "next" is
\* hidden and "previous" is not.
C7_OpenedLast ==
    \E g \in registered :
        /\ lastEvent = <<"click", g>> /\ clickListeners[g] # <<>>
        /\ LET l == Last(clickListeners[g]) IN
              /\ Len(modal.galleryImages[l.s]) > 1
              /\ l.index = Len(modal.galleryImages[l.s]) - 1
              /\ modal.isOpen[l.s] /\ modal.currentImageIndex[l.s] = l.index
              /\ modal.nextDisplay = "none" /\ modal.prevDisplay = "block"

\* C8: showPrevious at index 0 and showNext at the last index leave the
\* lightbox (index, image, caption, visibility, controls) as it is and
\* schedule no timer.
C8_BoundaryNoOp ==
    \A s \in DOMAIN modal.galleryImages :
        /\ modal.currentImageIndex[s] = 0 => showPrevImage(Now, s) = Now
        /\ modal.currentImageIndex[s] = Len(modal.galleryImages[s]) - 1 =>
              showNextImage(Now, s) = Now

\* C8 witness: ArrowLeft was pressed on the shown lightbox at index 0 of a
\* gallery of several entries and nothing was scheduled.
C8_LeftAtFirst ==
    /\ lastEvent = <<"key", "ArrowLeft">> /\ page = "BTZ"
    /\ modal.show /\ modal.isOpen["A"] /\ modal.currentImageIndex["A"] = 0
    /\ Len(modal.galleryImages["A"]) > 1
    /\ timers = <<>>

\* C9: on the shown lightbox one ArrowRight press at index i below the last
\* leaves the session at i + 1 showing entry i + 1, and one ArrowLeft press at
\* i above 0 leaves it at i - 1 showing entry i - 1.
C9_OneStepPerKey ==
    \A s \in DOMAIN modal.isOpen :
        LET i == modal.currentImageIndex[s]
            n == Len(modal.galleryImages[s])
            r == KeyListeners(Now, page, "ArrowRight").m
            l == KeyListeners(Now, page, "ArrowLeft").m
        IN (modal.show /\ modal.isOpen[s] /\ 0 <= i /\ i < n) =>
              /\ i < n - 1 => /\ r.currentImageIndex[s] = i + 1
                              /\ r.src = modal.galleryImages[s][i + 2].src
              /\ i > 0 => /\ l.currentImageIndex[s] = i - 1
                          /\ l.src = modal.galleryImages[s][i].src

\* C10: while every session is closed a press of Escape, ArrowLeft or
\* ArrowRight changes nothing of the lightbox and schedules no timer.
C10_ClosedKeysInert ==
    (\A s \in DOMAIN modal.isOpen : ~modal.isOpen[s]) =>
        \A key \in Keys : KeyListeners(Now, page, key) = Now

\* C11: after close with no open following (every session closed), the
\* overlay is not in the shown state, whatever timers were pending at the
\* close, and once no hide timer is pending it is not displayed.
C11_ClosedStaysHidden ==
    (\A s \in DOMAIN modal.isOpen : ~modal.isOpen[s]) =>
        /\ ~modal.show
        /\ ~HidePending => modal.display = "none"

\* C12: a touch gesture with start x s and end x e steps a session forward
\* exactly when s - e > 50 and backward exactly when e - s > 50: a delta of
\* exactly 50 changes nothing and schedules nothing, a delta of 51 moves the
\* index by exactly one and schedules one show timer (nothing at the boundary
\* entry), and no gesture does both; every session of the page takes the same
\* step when the overlay's touchend listeners run in turn.
C12_SwipeThreshold ==
    \A s \in DOMAIN touchStartX : \A e \in TouchXs :
        LET d == touchStartX[s] - e
            i == modal.currentImageIndex[s]
            n == Len(modal.galleryImages[s])
            r == handleSwipe(Now, s, e)
            all == swipeEach(Now, SessionOrder(page), e)
        IN /\ (d > SwipeThreshold /\ i < n - 1) =>
                  /\ r.m.currentImageIndex[s] = i + 1
                  /\ r.sched = <<Timer("show", 0, 0, s)>>
           /\ (0 - d > SwipeThreshold /\ i > 0 /\ i <= n) =>
                  /\ r.m.currentImageIndex[s] = i - 1
                  /\ r.sched = <<Timer("show", 0, 0, s)>>
           /\ (d <= SwipeThreshold /\ 0 - d <= SwipeThreshold) => r = Now
           /\ (d > SwipeThreshold /\ i >= n - 1) => r = Now
           /\ (0 - d > SwipeThreshold /\ i <= 0) => r = Now
           /\ Len(r.sched) <= 1
           /\ all.m.currentImageIndex[s] = r.m.currentImageIndex[s]

\* C12 witness: a gesture from 101 to 50 (delta 51) on BTZ stepped forward.
C12_SwipedBy51 ==
    /\ page = "BTZ" /\ lastEvent = <<"touchend", SwipeThreshold>>
    /\ touchStartX["A"] = 2 * SwipeThreshold + 1
    /\ modal.isOpen["A"] /\ modal.currentImageIndex["A"] = 1
    /\ modal.src = modal.galleryImages["A"][2].src
    /\ \E k \in 1..Len(timers) : timers[k].kind = "show"

PendingRebuilds(s) ==
    Len(SelectSeq(timers, LAMBDA t : t.kind = "rebuild" /\ t.s = s))

\* C18: on a project page every successful load of a lazy image has its
\* re-scan of the loader's session either pending as a timer or run, whatever
\* the order of the completions, and nothing else asks for one: the re-scans
\* pending and run are the startup one and one per successful load (a failed
\* load adds none); the re-scan a timer has just run rebuilt the whole entry
\* sequence from the images in the document.
C18_LoadThenRebuild ==
    ProjectPage =>
       \A s \in DOMAIN rebuildLog :
          /\ PendingRebuilds(s) + rebuildLog[s].rebuilt =
                rebuildLog[s].loaded + (IF s = GlobalSession(page) THEN 1 ELSE 0)
          /\ lastEvent = <<"rebuild", s>> =>
                modal.galleryImages[s] =
                   [i \in 1..Len(projectImages) |-> GalleryEntry(projectImages[i])]

\* Two loads have succeeded and one has failed, and every re-scan asked for
\* has run: the startup one and one per successful load.
C18_TwoLoadsRebuilt ==
    /\ page = "BTZ"
    /\ rebuildLog["A"] = [loaded |-> 2, rebuilt |-> 3]
    /\ \E p \in registered : failures[p] = 1
    /\ timers = <<>>
    /\ lastEvent = <<"rebuild", "A">>

\* A re-scan of session s has just run: ImageModal's constructor (AIAA), a
\* re-scan timer, or window.initializeModal called by another script.
JustBuilt(s) ==
    \/ lastEvent \in {<<"rebuild", s>>, <<"rescan", s>>}
    \/ lastEvent = <<"init">> /\ page = "AIAA" /\ s = "A"

\* C19: when a session has just built its entry sequence, the sequence has
\* one entry per gallery image in the document, in document order without
\* gaps or duplicates, each describing its image, and a click on the i-th
\* image (counting from 0) leaves the session at index i with that image's
\* entry displayed.
C19_EntriesMatchDocument ==
    \A s \in DOMAIN modal.isOpen :
       JustBuilt(s) =>
          LET G == modal.galleryImages[s] IN
          /\ Len(G) = Cardinality(inDocument)
          /\ \A i \in 1..Len(G) :
                /\ G[i].img \in inDocument
                /\ G[i] = GalleryEntry(G[i].img)
                /\ \A j \in 1..Len(G) : i < j => G[i].img < G[j].img
                /\ LET r == RunListeners(Now, clickListeners[G[i].img]) IN
                   /\ r.m.currentImageIndex[s] = i - 1
                   /\ r.m.isOpen[s]
                   /\ r.m.display = "flex"
                   /\ r.m.src = G[i].src
                   /\ r.m.caption = G[i].caption

\* An image has left the document and the re-scan timer of a load has run:
\* the two images left are entries 0 and 1, and the last one still carries the
\* listener of the first scan.
C19_RebuiltAfterRemoval ==
    /\ page = "BTZ"
    /\ lastEvent = <<"rebuild", "A">>
    /\ registered = 1..3 /\ inDocument = {2, 3}
    /\ Len(modal.galleryImages["A"]) = 2
    /\ Len(clickListeners[3]) = 2
    /\ clickListeners[3][1].index = 2

\* C20: in a gallery of 4 entries open(1) followed by three showNext calls
\* ends at index 3 with "next" hidden, the third call and a fourth changing
\* nothing.
C20_OpenThenNext ==
    \A s \in DOMAIN modal.galleryImages :
        Len(modal.galleryImages[s]) = 4 =>
            LET w0 == openModal(Now, s, 1)
                w1 == showNextImage(w0, s)
                w2 == showNextImage(w1, s)
                w3 == showNextImage(w2, s)
                w4 == showNextImage(w3, s)
            IN /\ w0.m.currentImageIndex[s] = 1
               /\ w1.m.currentImageIndex[s] = 2
               /\ w2.m.currentImageIndex[s] = 3
               /\ w2.m.nextDisplay = "none" /\ w2.m.prevDisplay = "block"
               /\ w2.m.src = modal.galleryImages[s][4].src
               /\ w3 = w2
               /\ w4 = w3
               /\ Len(w4.sched) = 3

\* C20 witness: on BTZ the 4-entry lightbox is shown at index 3 with "next"
\* hidden, and the last ArrowRight press scheduled nothing.
C20_AtLastOfFour ==
    /\ page = "BTZ" /\ lastEvent = <<"key", "ArrowRight">>
    /\ Len(modal.galleryImages["A"]) = 4
    /\ modal.show /\ modal.isOpen["A"] /\ modal.currentImageIndex["A"] = 3
    /\ modal.nextDisplay = "none"
    /\ timers = <<>>

\* A terminal visual state: marked loaded (also with a directly assigned or
\* fallback source), or the load ended Loaded or Failed.
VisualTerminal(p) == "loaded" \in flags[p] \/ Terminal(p)

\* C13: started without the intersection primitive, every registered
\* placeholder (with a deferred source) is in a terminal visual state once no
\* fetch is in flight; no viewport event exists in this configuration.
C13_FallbackLoadsAll ==
    inflight = EmptyBag =>
        \A p \in registered : dataSrc[p] => VisualTerminal(p)

\* Nothing was fetched for the placeholder and nothing of it changed.
Untouched(p) ==
    /\ hist[p] = <<"Pending">>
    /\ attempts[p] = 0 /\ failures[p] = 0 /\ InFlight(p) = 0
    /\ imgSrc[p] = NoSrc /\ flags[p] = {}
    /\ ~RetryPending(p)

\* C14: when, of the registered placeholders, only the 2nd got an
\* intersecting entry and its fetch failed twice and then succeeded, the 2nd
\* has exactly 3 Loading entries and ends Loaded with its deferred URL as
\* source, and every other placeholder is still Pending, without a fetch or
\* a visual change; the others stay so through every failure and retry of
\* the 2nd.
C14_SiblingsUntouched ==
    (\A q \in registered : triggered[q] = (q = 2)) =>
        /\ \A q \in registered \ {2} : Untouched(q)
        /\ (failures[2] = 2 /\ Terminal(2)) =>
              /\ hist[2] = <<"Pending", "Loading", "Loading", "Loading", "Loaded">>
              /\ attempts[2] = 3
              /\ imgSrc[2] = Url(2)

\* C14 witness: three placeholders, the 2nd Loaded after two failures, the
\* 1st and 3rd never triggered.
C14_SecondLoadedOnThird ==
    /\ Cardinality(registered) = NumSiblings
    /\ \A q \in registered : triggered[q] = (q = 2)
    /\ failures[2] = 2 /\ Last(hist[2]) = "Loaded" /\ attempts[2] = 3
    /\ Untouched(1) /\ Untouched(3)

\* A failure indication on the visible element: error text or styling, the
\* fallback asset, the hidden loading indicator, or the Failed state.
FailureShown(p) ==
    \/ flags[p] \cap {"alt-failed", "error-state", "icon-warning", "loader-hidden"} # {}
    \/ imgSrc[p] = FallbackSrc
    \/ Last(hist[p]) = "Failed"

\* C15: a failed fetch of an image placeholder is retried, up to 3 retries:
\* while it has failed at most 3 times and has not loaded, a fetch is in
\* flight or a retry is pending, and no failure indication is applied.
C15_RetriedBeforeSurfaced ==
    \A p \in registered :
        (/\ variant[p] \in {"profile", "experience", "lazy"}
         /\ failures[p] >= 1 /\ failures[p] <= RetryBudget
         /\ "Loaded" \notin {hist[p][i] : i \in 1..Len(hist[p])}) =>
            /\ ~FailureShown(p)
            /\ ProbesInFlight(p) > 0 \/ RetryPending(p)

\* C16: a plain image placeholder whose fetch failed with no retries left has
\* the fallback asset as its source, is marked loaded and has its loading
\* indicator hidden.
C16_FallbackOnExhaustion ==
    \A p \in registered :
        (variant[p] \in {"profile", "lazy"} /\ Last(hist[p]) = "Failed") =>
            /\ imgSrc[p] = FallbackSrc
            /\ "loaded" \in flags[p]
            /\ "loader-hidden" \in flags[p]

\* The click listeners session s has added to gallery image g.
ListenersOf(g, s) == SelectSeq(clickListeners[g], LAMBDA l : l.s = s)

\* C17: re-scanning again leaves the lightbox as one re-scan left it: the
\* same entries, index and open state, and for every session one click on a
\* gallery image runs open exactly once and schedules exactly one show timer.
C17_RescanIdempotent ==
    \A s \in DOMAIN modal.isOpen :
        /\ Rebuilt(Rebuilt(modal, s), s) = Rebuilt(modal, s)
        /\ \A g \in inDocument :
              ListenersOf(g, s) # <<>> =>
                  /\ Len(ListenersOf(g, s)) = 1
                  /\ Len(RunListeners(Now, ListenersOf(g, s)).sched) = 1

\* C21: a video without a deferred source URL is left as it was by every
\* loadVideo, however often the watcher or loadVideoById calls it: no fetch
\* was issued or is in flight, no completion handler ran, its state is
\* Pending and its loading indicator is hidden as at startup.
C21_NoSourceNoLoad ==
    \A p \in registered :
        (variant[p] = "video" /\ ~dataSrc[p]) =>
            /\ attempts[p] = 0 /\ InFlight(p) = 0
            /\ hist[p] = <<"Pending">>
            /\ flags[p] = {"loader-hidden"}
            /\ imgSrc[p] = NoSrc
            /\ playButtons[p] = 0 /\ errorMsgs[p] = 0 /\ failures[p] = 0

\* The watcher has called loadVideo on a video without a deferred source URL.
C21_TriggeredWithoutSource ==
    \E p \in registered : variant[p] = "video" /\ ~dataSrc[p] /\ triggered[p]

\* C22: a video whose probe fetch has failed carries the error class and one
\* inline error message per failure, is no longer observed, so that the
\* watcher can start no load of it, and while the failure is the last thing
\* that happened to it its loading indicator is hidden.
C22_VideoFailure ==
    \A p \in registered :
        (variant[p] = "video" /\ failures[p] >= 1) =>
            /\ "video-error" \in flags[p]
            /\ errorMsgs[p] = failures[p]
            /\ "A" \notin observing[p]
            /\ ~ENABLED videoObserver(p, TRUE)
            /\ Last(hist[p]) = "Failed" => "loader-hidden" \in flags[p]

\* The watcher started the load of a video and its probe fetch failed.
C22_VideoFailed ==
    \E p \in registered :
        /\ variant[p] = "video" /\ triggered[p]
        /\ hist[p] = <<"Pending", "Loading", "Failed">>
        /\ errorMsgs[p] = 1

\* C23: a placeholder that has reached Loaded or Failed stays as it is: the
\* terminal entry of its history is the last one (no fetch is issued and no
\* other outcome is applied after it).
C23_TerminalFinal ==
    \A p \in registered :
        \A i \in 1..(Len(hist[p]) - 1) : hist[p][i] \notin {"Loaded", "Failed"}

\* C24: the page has one lightbox session: whenever a session is open its
\* index is that of an entry, the overlay shows that entry's image and
\* caption, and every open session has the same index.
C24_SingleSession ==
    \A s \in DOMAIN modal.isOpen :
        modal.isOpen[s] =>
            LET G == modal.galleryImages[s]
                i == modal.currentImageIndex[s]
            IN /\ i >= 0 /\ i < Len(G)
               /\ modal.src = G[i + 1].src
               /\ modal.caption = G[i + 1].caption
               /\ \A t \in DOMAIN modal.isOpen :
                     modal.isOpen[t] => modal.currentImageIndex[t] = i

\* C25: whenever a session is open, from the return of its open until its
\* close, also before the show timer has fired, an Escape key press closes it
\* and schedules the hide timer.
C25_EscapeCloses ==
    ProjectPage =>
        \A s \in DOMAIN modal.isOpen :
            modal.isOpen[s] =>
                LET r == KeyListeners(Now, page, "Escape")
                IN /\ ~r.m.isOpen[s]
                   /\ \E k \in 1..Len(r.sched) : r.sched[k].kind = "close"

\* A timer of the given kind is pending for placeholder p.
TimerPending(p, kind) ==
    \E k \in 1..Len(timers) : timers[k].p = p /\ timers[k].kind = kind

\* C26: on the main page a placeholder whose fetch succeeded is marked loaded
\* from the success callback on, with its timers still pending; a high-weight
\* image keeps its loading indicator and its shimmer until the hide timer
\* fires, which is after the entrance timer.
C26_LoadedInCallback ==
    page = "main" =>
        \A p \in registered :
            Last(hist[p]) = "Loaded" =>
                /\ "loaded" \in flags[p]
                /\ variant[p] = "experience" =>
                      /\ TimerPending(p, "hide") =>
                            "loader-hidden" \notin flags[p] /\ "show-shimmer" \in flags[p]
                      /\ ~TimerPending(p, "hide") =>
                            /\ "loader-hidden" \in flags[p] /\ "show-shimmer" \notin flags[p]
                            /\ ~TimerPending(p, "loaded")

\* C27: on the main page a high-weight image whose fetch failed with no
\* retries left has the error class and the warning icon, its loading
\* indicator is hidden, and it is not marked loaded, whatever timers have
\* fired since.
C27_ExperienceFailure ==
    page = "main" =>
        \A p \in registered :
            (variant[p] = "experience" /\ Last(hist[p]) = "Failed") =>
                /\ {"error-state", "icon-warning", "loader-hidden"} \subseteq flags[p]
                /\ "loaded" \notin flags[p]
                /\ imgSrc[p] = NoSrc

\* A high-weight image has failed four times while a sibling's success
\* timers were running: every timer has fired since.
C27_FailedAndTimersDone ==
    /\ page = "main"
    /\ \E p \in registered :
          /\ variant[p] = "experience" /\ Last(hist[p]) = "Failed"
          /\ failures[p] = RetryBudget + 1
    /\ \E q \in registered : variant[q] = "experience" /\ "icon-faded" \in flags[q]
    /\ timers = <<>>

\* C28: the success handling of a video runs at most once: its container
\* holds at most one play overlay, and one click on the loaded, paused video
\* starts playback.
C28_SuccessOnce ==
    \A p \in registered :
        variant[p] = "video" =>
            /\ playButtons[p] <= 1
            /\ (playButtons[p] >= 1 /\ player[p].paused) =>
                  ~toggleEach(player[p], playButtons[p], TRUE).paused

\* C29: a loaded video shows a play overlay exactly when it is not playing:
\* one is visible right after the load and after every pause or ended event,
\* none after a play event.
C29_OverlayInvertsPlayback ==
    \A p \in registered :
        (variant[p] = "video" /\ playButtons[p] >= 1) =>
            /\ Len(player[p].overlays) = playButtons[p]
            /\ player[p].paused <=> \E k \in DOMAIN player[p].overlays : player[p].overlays[k]
            /\ (playButtons[p] = 1 /\ hist[p] = <<"Pending", "Loading", "Loaded">>
                   /\ lastEvent = <<"init">>) => player[p] = [paused |-> TRUE, overlays |-> <<TRUE>>]

\* A loaded video has played to its end: its overlay is visible again.
C29_EndedShowsOverlay ==
    /\ lastEvent = <<"video", "ended">>
    /\ \E p \in registered :
          /\ variant[p] = "video"
          /\ player[p] = [paused |-> TRUE, overlays |-> <<TRUE>>]

\* C30: whenever a session is open, the previous control is hidden exactly
\* when its index is 0 and the next control exactly when its index is that of
\* the last entry, also after the entries were rebuilt while it is open.
C30_ControlsMatchIndex ==
    \A s \in DOMAIN modal.isOpen :
        modal.isOpen[s] =>
            /\ modal.prevDisplay = "none" <=> modal.currentImageIndex[s] = 0
            /\ modal.nextDisplay = "none" <=>
                  modal.currentImageIndex[s] = Len(modal.galleryImages[s]) - 1

\* The images the entries of a sequence describe, in order.
ImagesOf(G) == [i \in 1..Len(G) |-> G[i].img]

\* C31: a re-scan of a session changes nothing of the lightbox but that
\* session's entries: every session's open state and index, the displayed
\* image, alt and caption, the overlay's display and shown state, the scroll
\* lock and the controls stay as they are; and when the entries were built
\* from the images now in the document, the new sequence describes the same
\* images in the same order, whichever of them have been loaded.
C31_RebuildKeepsSession ==
    \A s \in DOMAIN modal.isOpen :
        LET r == Rebuilt(modal, s) IN
        /\ r = [modal EXCEPT !.galleryImages[s] = r.galleryImages[s]]
        /\ {modal.galleryImages[s][i].img : i \in 1..Len(modal.galleryImages[s])} = inDocument
              => ImagesOf(r.galleryImages[s]) = ImagesOf(modal.galleryImages[s])

\* The re-scan timer of a load has just run while the lightbox was open at
\* its second entry, with one image loaded and another still pending.
C31_RebuiltWhileOpen ==
    /\ page = "BTZ"
    /\ lastEvent = <<"rebuild", "A">>
    /\ modal.isOpen["A"] /\ modal.show /\ modal.currentImageIndex["A"] = 1
    /\ Len(modal.galleryImages["A"]) = 3
    /\ rebuildLog["A"].rebuilt = 2
    /\ \E p, q \in inDocument : Last(hist[p]) = "Loaded" /\ hist[q] = <<"Pending">>

\* C32: on the main page, when every issued fetch completes and every timer
\* fires, a placeholder whose load loadImageWithRetry has started reaches
\* Loaded or Failed.
C32_LoadTerminates ==
    \A p \in Placeholders : (attempts[p] >= 1) ~> Terminal(p)

\* Two fetches of a placeholder failed, their retry timers fired and the third
\* fetch succeeded.
C32_LoadedOnThirdAttempt ==
    /\ page = "main"
    /\ \E p \in registered :
          /\ hist[p] = <<"Pending", "Loading", "Loading", "Loading", "Loaded">>
          /\ failures[p] = 2

\* C33: on a project page the body carries modal-open exactly when the
\* overlay is displayed, whatever the order of opens, closes and their timers.
C33_ScrollLockWithOverlay ==
    ProjectPage => (modal.bodyModalOpen <=> modal.display # "none")

\* The hide timer of an earlier close has fired after the lightbox was opened
\* again and shown: overlay and scroll lock are both cleared.
C33_HiddenAfterReopen ==
    /\ page = "BTZ"
    /\ modal.isOpen["A"] /\ modal.show
    /\ modal.display = "none" /\ ~modal.bodyModalOpen
    /\ timers = <<>>

====
